---- MODULE Spec2Model ----
(***************************************************************************)
(* evm-deployment-info: reconciliation of the networks declared in         *)
(* hardhat.config.ts against the records under deployments/chain-<id>.     *)
(*                                                                         *)
(* Strings whose characters matter (network names, prefixes, suffixes,     *)
(* rendered labels, addresses, the text of the config and of the rendered  *)
(* documents) are sequences of ASCII codes.                                *)
(***************************************************************************)
EXTENDS Integers, Sequences, FiniteSets, TLC

(* ------------------------------ names ---------------------------------- *)
hardhat         == <<104, 97, 114, 100, 104, 97, 116>>
polygonAmoy     == <<112, 111, 108, 121, 103, 111, 110, 65, 109, 111, 121>>
polygonMainnet  == <<112, 111, 108, 121, 103, 111, 110, 77, 97, 105, 110, 110, 101, 116>>
EthereumMainnet == <<69, 116, 104, 101, 114, 101, 117, 109, 77, 97, 105, 110, 110, 101, 116>>
Mainnet         == <<77, 97, 105, 110, 110, 101, 116>>
polygon         == <<112, 111, 108, 121, 103, 111, 110>>
ethereum        == <<101, 116, 104, 101, 114, 101, 117, 109>>

\* Option::None, a value that is no string of characters
None == <<-1>>

(* ------------------------- characters, strings ------------------------- *)
IsUpper(c) == c \in 65..90
IsLower(c) == c \in 97..122
IsDigit(c) == c \in 48..57
\* ASCII whitespace of char::is_whitespace and of the regex class \s: tab,
\* line feed, vertical tab, form feed, carriage return, space
IsSpace(c) == c \in 9..13 \/ c = 32

\* Ord::cmp on String: bytewise lexicographic; -1 Less, 0 Equal, 1 Greater.
RECURSIVE StrCmp(_, _)
StrCmp(a, b) ==
    IF a = <<>> THEN (IF b = <<>> THEN 0 ELSE -1)
    ELSE IF b = <<>> THEN 1
    ELSE IF Head(a) < Head(b) THEN -1
    ELSE IF Head(a) > Head(b) THEN 1
    ELSE StrCmp(Tail(a), Tail(b))

\* found_deployments.sort_by(|a, b| a.0.cmp(&b.0))
CmpByName(a, b) == StrCmp(a.name, b.name)

\* the aggregated comparator: "Mainnet" first, the rest by suffix
CmpMainnetFirst(a, b) ==
    IF a.suffix = Mainnet THEN -1
    ELSE IF b.suffix = Mainnet THEN 1
    ELSE StrCmp(a.suffix, b.suffix)

\* the comparator a sort call site passes: "name", "mainnet_first", or the
\* natural order of strings (Vec<String>::sort)
Compare(by, a, b) ==
    IF by = "name" THEN CmpByName(a, b)
    ELSE IF by = "mainnet_first" THEN CmpMainnetFirst(a, b)
    ELSE StrCmp(a, b)

\* slice::sort_by / sort on a slice of at most 20 elements: insertion sort,
\* element i is moved left while the comparator says it is Less than its
\* left neighbour.
InsertTail(sorted, x, by) ==
    LET stops == {j \in 1..Len(sorted) : Compare(by, x, sorted[j]) # -1}
        p     == IF stops = {} THEN 0
                 ELSE CHOOSE j \in stops : \A k \in stops : k <= j
    IN  SubSeq(sorted, 1, p) \o <<x>> \o SubSeq(sorted, p + 1, Len(sorted))

SortBy(s, by) ==
    LET ins[i \in 0..Len(s)] ==
            IF i = 0 THEN <<>> ELSE InsertTail(ins[i - 1], s[i], by)
    IN  ins[Len(s)]

(* --------------------------- aggregation split ------------------------- *)
\* network.split(|c| c.is_uppercase())[0]: the text before the first
\* uppercase letter, wherever that letter is (index 0 included).
RECURSIVE FirstPart(_)
FirstPart(s) ==
    IF s = <<>> \/ IsUpper(Head(s)) THEN <<>>
    ELSE <<Head(s)>> \o FirstPart(Tail(s))

SplitName(network) ==
    LET prefix == FirstPart(network)
        rest   == SubSeq(network, Len(prefix) + 1, Len(network))
    IN  [prefix |-> prefix,
         suffix |-> IF rest = <<>> THEN Mainnet ELSE rest]

(* --------------------------- camel_to_title_case ----------------------- *)
\* Regex ([a-z0-9])([A-Z]) replaced by "$1 $2", matches left to right.
RECURSIVE InsertSpaces(_)
InsertSpaces(s) ==
    IF Len(s) < 2 THEN s
    ELSE IF (IsLower(s[1]) \/ IsDigit(s[1])) /\ IsUpper(s[2])
         THEN <<s[1], 32, s[2]>> \o InsertSpaces(Tail(Tail(s)))
         ELSE <<s[1]>> \o InsertSpaces(Tail(s))

\* split_whitespace: the maximal runs of non-space characters
RECURSIVE SplitWhitespace(_, _)
SplitWhitespace(s, word) ==
    IF s = <<>> THEN (IF word = <<>> THEN <<>> ELSE <<word>>)
    ELSE IF IsSpace(Head(s))
         THEN (IF word = <<>> THEN <<>> ELSE <<word>>) \o SplitWhitespace(Tail(s), <<>>)
         ELSE SplitWhitespace(Tail(s), Append(word, Head(s)))

Capitalize(word) ==
    IF word = <<>> THEN <<>>
    ELSE IF IsLower(Head(word)) THEN <<Head(word) - 32>> \o Tail(word)
    ELSE word

RECURSIVE JoinSpace(_)
JoinSpace(words) ==
    IF words = <<>> THEN <<>>
    ELSE IF Len(words) = 1 THEN Head(words)
    ELSE Head(words) \o <<32>> \o JoinSpace(Tail(words))

camel_to_title_case(s) ==
    LET words == SplitWhitespace(InsertSpaces(s), <<>>)
    IN  JoinSpace([i \in 1..Len(words) |-> Capitalize(words[i])])

(* ------------------------- decimal conversions ------------------------- *)
U64MaxDigits == <<1, 8, 4, 4, 6, 7, 4, 4, 0, 7, 3, 7, 0, 9, 5, 5, 1, 6, 1, 5>>

RECURSIVE StripZeros(_)
StripZeros(d) == IF d # <<>> /\ Head(d) = 0 THEN StripZeros(Tail(d)) ELSE d

RECURSIVE DigitsValue(_, _)
DigitsValue(d, acc) ==
    IF d = <<>> THEN acc ELSE DigitsValue(Tail(d), 10 * acc + Head(d))

\* str::parse::<u64>: an optional leading '+', then one or more ASCII digits
\* whose value fits 64 bits; anything else is an error.
ParseU64(tok) ==
    LET body   == IF tok # <<>> /\ Head(tok) = 43 THEN Tail(tok) ELSE tok
        digits == [i \in 1..Len(body) |-> body[i] - 48]
        sig    == StripZeros(digits)
        fits   == \/ Len(sig) < Len(U64MaxDigits)
                  \/ /\ Len(sig) = Len(U64MaxDigits)
                     /\ StrCmp(sig, U64MaxDigits) <= 0
    IN  IF body = <<>> \/ (\E i \in 1..Len(body) : ~IsDigit(body[i])) \/ ~fits
        THEN [ok |-> FALSE, value |-> 0]
        ELSE [ok |-> TRUE, value |-> DigitsValue(sig, 0)]

\* format!("{}", n) for an unsigned integer
RECURSIVE FormatU64(_)
FormatU64(n) ==
    IF n < 10 THEN <<48 + n>> ELSE FormatU64(n \div 10) \o <<48 + (n % 10)>>

ChainDash == <<99, 104, 97, 105, 110, 45>>

\* deployments_dir.join(format!("chain-{}", chain_id)): the entry's file name
ChainDirName(chain_id) == ChainDash \o FormatU64(chain_id)

\* str::strip_prefix
StripPrefix(s, prefix) ==
    IF Len(s) >= Len(prefix) /\ SubSeq(s, 1, Len(prefix)) = prefix
    THEN [some |-> TRUE, rest |-> SubSeq(s, Len(prefix) + 1, Len(s))]
    ELSE [some |-> FALSE, rest |-> <<>>]

(* -------------------------- config extraction -------------------------- *)
\* The network regex (\w+):\s*\{[^}]*chainId:\s*(\d+) on a text of ASCII
\* characters, matched as the regex crate matches it: leftmost start, each
\* repetition greedy, the next search starting where the last match ended.
IsWord(c) == IsUpper(c) \/ IsLower(c) \/ IsDigit(c) \/ c = 95

chainId_colon == <<99, 104, 97, 105, 110, 73, 100, 58>>

\* the first index from i on whose character is not in the class, or
\* Len(t) + 1
WordEnd(t, i) ==
    CHOOSE j \in i..(Len(t) + 1) :
        /\ j = Len(t) + 1 \/ ~IsWord(t[j])
        /\ \A k \in i..(j - 1) : IsWord(t[k])

SpaceEnd(t, i) ==
    CHOOSE j \in i..(Len(t) + 1) :
        /\ j = Len(t) + 1 \/ ~IsSpace(t[j])
        /\ \A k \in i..(j - 1) : IsSpace(t[k])

DigitEnd(t, i) ==
    CHOOSE j \in i..(Len(t) + 1) :
        /\ j = Len(t) + 1 \/ ~IsDigit(t[j])
        /\ \A k \in i..(j - 1) : IsDigit(t[k])

\* [^}]* can reach up to the first '}' from i on
BraceEnd(t, i) ==
    CHOOSE j \in i..(Len(t) + 1) :
        /\ j = Len(t) + 1 \/ t[j] = 125
        /\ \A k \in i..(j - 1) : t[k] # 125

LiteralAt(t, i, lit) ==
    /\ i + Len(lit) - 1 <= Len(t)
    /\ SubSeq(t, i, i + Len(lit) - 1) = lit

\* chainId:\s*(\d+) matches at k
ChainIdAt(t, k) ==
    /\ LiteralAt(t, k, chainId_colon)
    /\ LET d == SpaceEnd(t, k + Len(chainId_colon))
       IN  d <= Len(t) /\ IsDigit(t[d])

\* a match of the whole regex that starts at i: [ok, name, tok, end], end the
\* index after the match
MatchAt(t, i) ==
    LET no == [ok |-> FALSE, name |-> <<>>, tok |-> <<>>, end |-> i]
        e  == WordEnd(t, i)
        b  == SpaceEnd(t, e + 1)
        ks == {k \in (b + 1)..BraceEnd(t, b + 1) : ChainIdAt(t, k)}
        k  == CHOOSE x \in ks : \A y \in ks : y <= x
        d  == SpaceEnd(t, k + Len(chainId_colon))
    IN  IF e = i \/ e > Len(t) THEN no
        ELSE IF t[e] # 58 THEN no
        ELSE IF b > Len(t) THEN no
        ELSE IF t[b] # 123 THEN no
        ELSE IF ks = {} THEN no
        ELSE [ok |-> TRUE, name |-> SubSeq(t, i, e - 1),
              tok |-> SubSeq(t, d, DigitEnd(t, d) - 1), end |-> DigitEnd(t, d)]

\* network_regex.captures_iter(&content) from index pos on: the captures
\* (cap[1], cap[2]) in text order
RECURSIVE captures_iter(_, _)
captures_iter(t, pos) ==
    LET starts == {i \in pos..Len(t) : MatchAt(t, i).ok}
        i == CHOOSE x \in starts : \A y \in starts : x <= y
        m == MatchAt(t, i)
    IN  IF starts = {} THEN <<>>
        ELSE <<[name |-> m.name, tok |-> m.tok]>> \o captures_iter(t, m.end)

\* The captures of the network regex, in text order, are inserted into the
\* map one after the other; the first chain id that does not parse aborts.
\* networks is a function from network name to chain id (HashMap<String,u64>).
RECURSIVE InsertCaptures(_, _)
InsertCaptures(caps, networks) ==
    IF caps = <<>> THEN [ok |-> TRUE, networks |-> networks]
    ELSE LET cap      == Head(caps)
             chain_id == ParseU64(cap.tok)
         IN  IF ~chain_id.ok THEN [ok |-> FALSE, networks |-> networks]
             ELSE InsertCaptures(Tail(caps),
                    [n \in DOMAIN networks \cup {cap.name} |->
                        IF n = cap.name THEN chain_id.value ELSE networks[n]])

parse_hardhat_config(config) ==
    IF config.state # "ok" THEN [ok |-> FALSE, networks |-> <<>>]
    ELSE InsertCaptures(config.captures, <<>>)

validate_hardhat_project(config) == config.state # "absent"

(* --------------------------- deployment store -------------------------- *)
\* dir is a function from entry name to [isDir, rec]; rec is the state of the
\* entry's deployed_addresses.json: [file, values], values being the values
\* of the JSON object in the order its map enumerates them.
NoEntry == [isDir |-> FALSE, rec |-> [file |-> "absent", values |-> <<>>]]

Lookup(dir, name) == IF name \in DOMAIN dir THEN dir[name] ELSE NoEntry

PathExists(dir, name) == name \in DOMAIN dir

\* as Excluded, comparing with "Hardhat"
ExcludedCapitalised(network_name) == network_name = <<72>> \o Tail(hardhat)

\* if network_name == "hardhat" { continue; }
Excluded(network_name) == network_name = hardhat

get_deployment_address(entry) ==
    IF ~entry.isDir \/ entry.rec.file = "absent"
    THEN [ok |-> TRUE, value |-> None]
    ELSE IF entry.rec.file \in {"unreadable", "badjson"}
    THEN [ok |-> FALSE, value |-> None]
    ELSE IF entry.rec.file # "object" \/ entry.rec.values = <<>>
    THEN [ok |-> TRUE, value |-> None]
    ELSE LET v == Head(entry.rec.values)
         IN  [ok |-> TRUE, value |-> IF v.isStr THEN v.s ELSE None]

\* the for loop of list_deployments run over the whole iteration order of the
\* map: the two vectors it leaves
RECURSIVE Reconcile(_, _, _)
Reconcile(order, networks, dir) ==
    IF order = <<>> THEN [found |-> <<>>, missing |-> <<>>]
    ELSE LET acc == Reconcile(SubSeq(order, 1, Len(order) - 1), networks, dir)
             network_name == order[Len(order)]
             r == get_deployment_address(
                      Lookup(dir, ChainDirName(networks[network_name])))
         IN  IF Excluded(network_name) \/ ~r.ok THEN acc
             ELSE IF r.value # None
             THEN [acc EXCEPT !.found =
                      Append(@, [name |-> network_name, address |-> r.value])]
             ELSE [acc EXCEPT !.missing = Append(@, network_name)]

\* count_deployments: Ok(number of directories) or Err
count_deployments(deployments) ==
    IF deployments.state = "absent" THEN [ok |-> TRUE, value |-> 0]
    ELSE IF deployments.state = "unreadable" THEN [ok |-> FALSE, value |-> 0]
    ELSE [ok |-> TRUE,
          value |-> Cardinality({n \in DOMAIN deployments.dir :
                                    deployments.dir[n].isDir})]

(* ----------------------------- small helpers --------------------------- *)
Range(s) == {s[i] : i \in 1..Len(s)}

\* every order in which the elements of S can be enumerated
RECURSIVE Perms(_)
Perms(S) ==
    IF S = {} THEN {<<>>}
    ELSE UNION {{<<x>> \o p : p \in Perms(S \ {x})} : x \in S}

\* the keys of a BTreeMap<String, _> in iteration order
RECURSIVE SortedKeys(_)
SortedKeys(S) ==
    IF S = {} THEN <<>>
    ELSE LET m == CHOOSE x \in S : \A y \in S : StrCmp(x, y) <= 0
         IN  <<m>> \o SortedKeys(S \ {m})

RECURSIVE Concat(_)
Concat(ss) == IF ss = <<>> THEN <<>> ELSE Head(ss) \o Concat(Tail(ss))

(* -------------------------------- rendering ---------------------------- *)
\* A rendered document is [command, format, sections, found, missing] for
\* list and [command, format, sections, config_without_deployment,
\* deployment_without_config] for audit: the rows in the order they are
\* emitted.  A row keeps the raw tokens it was made from next to the text
\* that is printed for it (label, and group for a group header).
\* serde_json::Map is a BTreeMap (no preserve_order): keys come out sorted.

FlatRow(name, address, label) ==
    [name |-> name, label |-> label, address |-> address]

AggRow(network, address) ==
    LET sp == SplitName(network)
    IN  [prefix |-> sp.prefix, suffix |-> sp.suffix, address |-> address]

Printed(row, group, label) ==
    [prefix |-> row.prefix, suffix |-> row.suffix, address |-> row.address,
     group |-> group, label |-> label]

FoundAgg(found_deployments) ==
    [i \in 1..Len(found_deployments) |->
        AggRow(found_deployments[i].name, found_deployments[i].address)]

MissingAgg(missing_deployments) ==
    [i \in 1..Len(missing_deployments) |-> AggRow(missing_deployments[i], None)]

Prefixes(rows) == {rows[i].prefix : i \in 1..Len(rows)}

OfPrefix(rows, p) == SelectSeq(rows, LAMBDA r : r.prefix = p)

\* BTreeMap<String, Vec<_>>: entry(prefix).or_default().push(..), groups in
\* key order, each group in push order
Grouped(rows) ==
    LET keys == SortedKeys(Prefixes(rows))
    IN  [k \in 1..Len(keys) |-> OfPrefix(rows, keys[k])]

\* for (prefix, mut networks) in grouped { networks.sort_by(..); .. }
GroupedSorted(rows) ==
    LET groups == Grouped(rows)
    IN  Concat([k \in 1..Len(groups) |-> SortBy(groups[k], "mainnet_first")])

\* nested serde_json maps prefix -> suffix -> address: a later insert of the
\* same (prefix, suffix) replaces the earlier one; both levels iterate sorted
JsonNested(rows) ==
    LET keys    == SortedKeys(Prefixes(rows))
        last(g, sfx) == LET idx == {i \in 1..Len(g) : g[i].suffix = sfx}
                        IN  g[CHOOSE i \in idx : \A j \in idx : j <= i]
        group(p) == LET g    == OfPrefix(rows, p)
                        sfxs == SortedKeys({g[i].suffix : i \in 1..Len(g)})
                    IN  [k \in 1..Len(sfxs) |-> last(g, sfxs[k])]
    IN  Concat([k \in 1..Len(keys) |-> group(keys[k])])

\* flat serde_json map name -> address
JsonFlat(found_deployments) ==
    LET names == SortedKeys({found_deployments[i].name :
                                i \in 1..Len(found_deployments)})
        addr(n) == LET i == CHOOSE i \in 1..Len(found_deployments) :
                                found_deployments[i].name = n
                   IN  found_deployments[i].address
    IN  [k \in 1..Len(names) |-> FlatRow(names[k], addr(names[k]), names[k])]

(* ------------------------------ output text ---------------------------- *)
\* s1 sep s2 sep .. sn
RECURSIVE Join(_, _)
Join(ss, sep) ==
    IF ss = <<>> THEN <<>>
    ELSE IF Len(ss) = 1 THEN ss[1]
    ELSE ss[1] \o sep \o Join(Tail(ss), sep)

Spaces(n) == [i \in 1..n |-> 32]

\* a lowercase hexadecimal digit
HexDigit(n) == IF n < 10 THEN 48 + n ELSE 87 + n

\* a JSON string: quotes around the characters, '"' and '\' escaped with '\',
\* backspace, tab, line feed, form feed and carriage return as \b, \t, \n,
\* \f and \r, every other control character below 0x20 as \u00XX
JsonEscape(c) ==
    IF c = 34 \/ c = 92 THEN <<92, c>>
    ELSE IF c = 8 THEN <<92, 98>>
    ELSE IF c = 9 THEN <<92, 116>>
    ELSE IF c = 10 THEN <<92, 110>>
    ELSE IF c = 12 THEN <<92, 102>>
    ELSE IF c = 13 THEN <<92, 114>>
    ELSE IF c \in 0..31
    THEN <<92, 117, 48, 48, HexDigit(c \div 16), HexDigit(c % 16)>>
    ELSE <<c>>

JsonString(s) == <<34>> \o Concat([i \in 1..Len(s) |-> JsonEscape(s[i])]) \o <<34>>

\* serde_json's PrettyFormatter, indent of two spaces: an object or array at
\* nesting depth level whose values are already rendered at depth level + 1
PrettyObject(keys, vals, level) ==
    IF keys = <<>> THEN <<123, 125>>
    ELSE <<123, 10>>
         \o Join([i \in 1..Len(keys) |->
                     Spaces(2 * (level + 1)) \o JsonString(keys[i])
                         \o <<58, 32>> \o vals[i]],
                 <<44, 10>>)
         \o <<10>> \o Spaces(2 * level) \o <<125>>

PrettyArray(items, level) ==
    IF items = <<>> THEN <<91, 93>>
    ELSE <<91, 10>>
         \o Join([i \in 1..Len(items) |-> Spaces(2 * (level + 1)) \o items[i]],
                 <<44, 10>>)
         \o <<10>> \o Spaces(2 * level) \o <<93>>

\* the keys of the rows in order of first appearance
RECURSIVE GroupKeys(_)
GroupKeys(rows) ==
    IF rows = <<>> THEN <<>>
    ELSE LET front == GroupKeys(SubSeq(rows, 1, Len(rows) - 1))
             p     == rows[Len(rows)].prefix
         IN  IF p \in Range(front) THEN front ELSE Append(front, p)

deployments_key == <<100, 101, 112, 108, 111, 121, 109, 101, 110, 116, 115>>
missing_key     == <<109, 105, 115, 115, 105, 110, 103>>

\* as OutputEntries, inserting both keys always
OutputEntriesAlways(found, missing, fval, mval) ==
    <<[key |-> deployments_key, val |-> fval],
      [key |-> missing_key, val |-> mval]>>

\* the entries of output: "deployments" if a network was found, "missing" if
\* one is missing
OutputEntries(found, missing, fval, mval) ==
    (IF found # <<>> THEN <<[key |-> deployments_key, val |-> fval]>> ELSE <<>>)
    \o (IF missing # <<>> THEN <<[key |-> missing_key, val |-> mval]>> ELSE <<>>)

\* serde_json::to_string_pretty(&output) of list: found and missing are the
\* rows of the two values in map and array order
to_string_pretty(found, missing, aggregate) ==
    LET fkeys == GroupKeys(found)
        mkeys == GroupKeys(missing)
        fval  == IF aggregate
                 THEN PrettyObject(fkeys,
                        [k \in 1..Len(fkeys) |->
                           LET g == OfPrefix(found, fkeys[k])
                           IN  PrettyObject([i \in 1..Len(g) |-> g[i].suffix],
                                            [i \in 1..Len(g) |-> JsonString(g[i].address)],
                                            2)],
                        1)
                 ELSE PrettyObject([i \in 1..Len(found) |-> found[i].name],
                                   [i \in 1..Len(found) |-> JsonString(found[i].address)],
                                   1)
        mval  == IF aggregate
                 THEN PrettyObject(mkeys,
                        [k \in 1..Len(mkeys) |->
                           LET g == OfPrefix(missing, mkeys[k])
                           IN  PrettyArray([i \in 1..Len(g) |-> JsonString(g[i].suffix)],
                                           2)],
                        1)
                 ELSE PrettyArray([i \in 1..Len(missing) |-> JsonString(missing[i].name)],
                                  1)
        output == OutputEntries(found, missing, fval, mval)
    IN  PrettyObject([i \in 1..Len(output) |-> output[i].key],
                     [i \in 1..Len(output) |-> output[i].val], 0)

\* the JSON branch of list_deployments; text is the string that is printed
\* (println! adds a newline) or written
RenderListJson(found_deployments, missing_deployments, aggregate) ==
    LET found   == IF aggregate
                   THEN LET rows == JsonNested(FoundAgg(found_deployments))
                        IN  [i \in 1..Len(rows) |->
                               Printed(rows[i], rows[i].prefix, rows[i].suffix)]
                   ELSE JsonFlat(found_deployments)
        missing == IF aggregate
                   THEN LET rows == Concat(Grouped(MissingAgg(missing_deployments)))
                        IN  [i \in 1..Len(rows) |->
                               Printed(rows[i], rows[i].prefix, rows[i].suffix)]
                   ELSE [i \in 1..Len(missing_deployments) |->
                           FlatRow(missing_deployments[i], None,
                                   missing_deployments[i])]
    IN  [command  |-> "list", format |-> "json",
         sections |-> (IF found_deployments # <<>> THEN {"deployments"} ELSE {})
                      \cup (IF missing_deployments # <<>> THEN {"missing"} ELSE {}),
         found    |-> found,
         missing  |-> missing,
         text     |-> to_string_pretty(found, missing, aggregate)]

csv_header     == <<78, 101, 116, 119, 111, 114, 107, 44, 65, 100, 100, 114, 101, 115, 115, 10>>
csv_missing    == <<10, 77, 105, 115, 115, 105, 110, 103, 32, 78, 101, 116, 119, 111, 114, 107, 115, 10>>

\* csv_content of list: the header, one "label,address\n" per found row and,
\* when a network is missing, "\nMissing Networks\n" and one "label," each
csv_content(found, missing) ==
    csv_header
    \o Concat([i \in 1..Len(found) |->
                  found[i].label \o <<44>> \o found[i].address \o <<10>>])
    \o (IF missing = <<>> THEN <<>>
        ELSE csv_missing \o Concat([i \in 1..Len(missing) |->
                                       missing[i].label \o <<44>>]))

CsvAggLabel(row) ==
    camel_to_title_case(row.prefix) \o <<32>> \o camel_to_title_case(row.suffix)

\* the CSV branch of list_deployments; text is csv_content
RenderListCsv(found_deployments, missing_deployments, aggregate) ==
    LET found   == IF aggregate
                   THEN LET rows == GroupedSorted(FoundAgg(found_deployments))
                        IN  [i \in 1..Len(rows) |->
                               Printed(rows[i], <<>>, CsvAggLabel(rows[i]))]
                   ELSE [i \in 1..Len(found_deployments) |->
                           FlatRow(found_deployments[i].name,
                                   found_deployments[i].address,
                                   camel_to_title_case(found_deployments[i].name))]
        missing == IF aggregate
                   THEN LET rows == MissingAgg(missing_deployments)
                        IN  [i \in 1..Len(rows) |->
                               Printed(rows[i], <<>>, CsvAggLabel(rows[i]))]
                   ELSE [i \in 1..Len(missing_deployments) |->
                           FlatRow(missing_deployments[i], None,
                                   camel_to_title_case(missing_deployments[i]))]
    IN  [command  |-> "list", format |-> "csv",
         sections |-> {"header"} \cup
                      (IF missing_deployments # <<>> THEN {"missing"} ELSE {}),
         found    |-> found,
         missing  |-> missing,
         text     |-> csv_content(found, missing)]

TableAggRows(rows) ==
    [i \in 1..Len(rows) |->
        Printed(rows[i], camel_to_title_case(rows[i].prefix) \o <<58>>,
                <<32, 32>> \o camel_to_title_case(rows[i].suffix))]

RenderListTable(found_deployments, missing_deployments, aggregate) ==
    [command  |-> "list", format |-> "table",
     sections |-> (IF found_deployments # <<>> THEN {"deployments"} ELSE {})
                  \cup (IF missing_deployments # <<>> THEN {"missing"} ELSE {}),
     found    |-> IF aggregate
                  THEN TableAggRows(GroupedSorted(FoundAgg(found_deployments)))
                  ELSE LET sorted == SortBy(found_deployments, "name")
                       IN  [i \in 1..Len(sorted) |->
                              FlatRow(sorted[i].name, sorted[i].address,
                                      camel_to_title_case(sorted[i].name))],
     missing  |-> IF aggregate
                  THEN TableAggRows(GroupedSorted(MissingAgg(missing_deployments)))
                  ELSE LET sorted == SortBy(missing_deployments, "string")
                       IN  [i \in 1..Len(sorted) |->
                              FlatRow(sorted[i], None,
                                      camel_to_title_case(sorted[i]))]]

RenderList(found_deployments, missing_deployments, aggregate, json, csv) ==
    IF json THEN RenderListJson(found_deployments, missing_deployments, aggregate)
    ELSE IF csv THEN RenderListCsv(found_deployments, missing_deployments, aggregate)
    ELSE RenderListTable(found_deployments, missing_deployments, aggregate)

RenderAudit(config_without_deployment, deployment_without_config, json, csv) ==
    [command  |-> "audit",
     format   |-> IF json THEN "json" ELSE IF csv THEN "csv" ELSE "table",
     sections |-> IF json \/ csv
                  THEN {"config_without_deployment", "deployment_without_config"}
                  ELSE (IF config_without_deployment # <<>>
                        THEN {"config_without_deployment"} ELSE {})
                       \cup (IF deployment_without_config # <<>>
                             THEN {"deployment_without_config"} ELSE {}),
     config_without_deployment |-> config_without_deployment,
     deployment_without_config |-> deployment_without_config]

\* Writing a rendered document: to the sink when --outfile is given, else to
\* standard output.  creates_parent says whether this call site runs
\* fs::create_dir_all(parent) before fs::write.  The two calls fail
\* separately: create_dir_all of a missing parent succeeds when mkdirOk,
\* fs::write succeeds when the parent directory exists and writeOk.
WriteOut(doc, outfile, creates_parent, parentExists, mkdirOk, writeOk) ==
    IF ~outfile
    THEN [ok |-> TRUE, stdout |-> <<doc>>, file |-> <<>>, parentExists |-> parentExists]
    ELSE IF creates_parent /\ ~parentExists /\ ~mkdirOk
    THEN [ok |-> FALSE, stdout |-> <<>>, file |-> <<>>, parentExists |-> FALSE]
    ELSE LET parent == parentExists \/ creates_parent
         IN  IF parent /\ writeOk
             THEN [ok |-> TRUE, stdout |-> <<>>, file |-> <<doc>>, parentExists |-> parent]
             ELSE [ok |-> FALSE, stdout |-> <<>>, file |-> <<>>, parentExists |-> parent]

\* as Orphans, with "hardhat" left out of the config's chain ids
OrphansIgnoringHardhat(entries, dir, networks) ==
    LET ids    == {networks[n] : n \in DOMAIN networks \ {hardhat}}
        parsed(name) == ParseU64(StripPrefix(name, ChainDash).rest)
        keep(name) == /\ dir[name].isDir
                      /\ StripPrefix(name, ChainDash).some
                      /\ parsed(name).ok
                      /\ parsed(name).value \notin ids
        kept   == SelectSeq(entries, keep)
    IN  [i \in 1..Len(kept) |-> parsed(kept[i]).value]

\* the second loop of audit_deployments over one enumeration of the directory
Orphans(entries, dir, networks) ==
    LET ids    == {networks[n] : n \in DOMAIN networks}
        parsed(name) == ParseU64(StripPrefix(name, ChainDash).rest)
        keep(name) == /\ dir[name].isDir
                      /\ StripPrefix(name, ChainDash).some
                      /\ parsed(name).ok
                      /\ parsed(name).value \notin ids
        kept   == SelectSeq(entries, keep)
    IN  [i \in 1..Len(kept) |-> parsed(kept[i]).value]

(* ------------------------------- the state ---------------------------- *)
VARIABLES
    cmd,           \* the parsed command line: [kind, aggregate, json, csv, outfile, force]
    config,        \* hardhat.config.ts: [state, captures], with text and blocks
                   \* when the file is given by its text
    deployments,   \* the deployments directory: [state, dir]
    parentExists,  \* the parent directory of the --outfile path exists
    mkdirOk,       \* fs::create_dir_all of a missing parent directory succeeds
    writeOk,       \* fs::write into an existing directory succeeds
    pc,            \* where main is
    networks,      \* the map parse_hardhat_config returned
    order,         \* what is left of the map's iteration, in iteration order
    found_deployments,
    missing_deployments,
    config_without_deployment,
    deployment_without_config,
    lastLookup,    \* the last call of get_deployment_address: <<[entry, result]>>
    stdout,
    stderr,
    outfile,       \* what was written to the --outfile path
    exitCode

vars == <<cmd, config, deployments, parentExists, mkdirOk, writeOk, pc,
          networks, order, found_deployments, missing_deployments,
          config_without_deployment, deployment_without_config, lastLookup,
          stdout, stderr, outfile, exitCode>>

env     == <<cmd, config, deployments, mkdirOk, writeOk>>
listAcc == <<found_deployments, missing_deployments>>
auditAcc == <<config_without_deployment, deployment_without_config>>

(* ------------------------------- the inputs ---------------------------- *)
MaxCaptures == 2   \* network blocks matched in the config text
MaxChain    == 2   \* chain ids are 1..MaxChain

ChainIds  == 1..MaxChain

\* decimal tokens of the config: the chain ids, and 2^64, which does not fit
TwoTo64 == <<49, 56, 52, 52, 54, 55, 52, 52, 48, 55, 51, 55, 48, 57, 53, 53,
             49, 54, 49, 54>>
IdTokens == {FormatU64(i) : i \in ChainIds}

SeqsUpTo(S, n) == UNION {[1..k -> S] : k \in 0..n}

ConfigsOver(names, toks) ==
    {[state |-> st, captures |-> <<>>] : st \in {"absent", "unreadable"}}
    \cup {[state |-> "ok", captures |-> c] :
            c \in SeqsUpTo([name : names, tok : toks], MaxCaptures)}

\* The text of a config written as a sequence of network blocks, each
\* [name, tok, shape], inside an enclosing "networks: { .. }" or not:
\*   plain   name: { chainId: tok }
\*   url     name: { url: "u", chainId: tok }
\*   nested  name: { accounts: { count: 1 }, chainId: tok }
\*   spaced  name:<LF>{ chainId:<TAB>tok }
BlockBody(b) ==
    (IF b.shape = "url" THEN <<117, 114, 108, 58, 32, 34, 117, 34, 44, 32>>
     ELSE IF b.shape = "nested" THEN <<97, 99, 99, 111, 117, 110, 116, 115, 58, 32, 123, 32, 99, 111, 117, 110, 116, 58, 32, 49, 32, 125, 44, 32>>
     ELSE <<>>)
    \o chainId_colon \o (IF b.shape = "spaced" THEN <<9>> ELSE <<32>>) \o b.tok

BlockText(b) ==
    b.name \o <<58>> \o (IF b.shape = "spaced" THEN <<10>> ELSE <<32>>)
    \o <<123, 32>> \o BlockBody(b) \o <<32, 125>>

ConfigText(blocks, wrapped) ==
    LET body == Join([i \in 1..Len(blocks) |-> BlockText(blocks[i])], <<44, 10>>)
    IN  IF wrapped THEN <<110, 101, 116, 119, 111, 114, 107, 115, 58, 32, 123, 10>> \o body \o <<10, 125>> ELSE body

BlockShapes == {"plain", "url", "nested", "spaced"}

\* the config files that hold such a text: captures are what the network
\* regex finds in the text
ConfigsOfText(names, toks) ==
    {[state |-> "ok", captures |-> captures_iter(ConfigText(bs, w), 1),
      text |-> ConfigText(bs, w), blocks |-> bs, wrapped |-> w] :
        bs \in SeqsUpTo([name : names, tok : toks, shape : BlockShapes],
                        MaxCaptures),
        w \in BOOLEAN}

\* address strings of the records: "0x1", "0x2", "0xabc"
Ox1   == <<48, 120, 49>>
Ox2   == <<48, 120, 50>>
Oxabc == <<48, 120, 97, 98, 99>>

Str(s) == [isStr |-> TRUE, s |-> s]
NonStr == [isStr |-> FALSE, s |-> <<>>]
Rec(file, values) == [file |-> file, values |-> values]

\* every directory whose entries are named in names and are in states
DirsOver(names, states) == UNION {[D -> states] : D \in SUBSET names}

FileEntry == NoEntry
DirEntry(rec) == [isDir |-> TRUE, rec |-> rec]

DeploymentsOver(names, states) ==
    {[state |-> st, dir |-> <<>>] : st \in {"absent", "unreadable"}}
    \cup {[state |-> "ok", dir |-> d] : d \in DirsOver(names, states)}

CommandLine(kind, aggregate, json, csv, out, force) ==
    [kind |-> kind, aggregate |-> aggregate, json |-> json, csv |-> csv,
     outfile |-> out, force |-> force]

\* clap: --json and --csv conflict, --outfile requires one of them
ListCommands ==
    {CommandLine("list", a, j, c, o, FALSE) :
        a \in BOOLEAN, j \in BOOLEAN, c \in BOOLEAN, o \in BOOLEAN}
    \ {x \in [kind : {"list"}, aggregate : BOOLEAN, json : BOOLEAN,
              csv : BOOLEAN, outfile : BOOLEAN, force : {FALSE}] :
          (x.json /\ x.csv) \/ (x.outfile /\ ~x.json /\ ~x.csv)}

AuditCommands ==
    {x \in {CommandLine("audit", FALSE, j, c, o, FALSE) :
               j \in BOOLEAN, c \in BOOLEAN, o \in BOOLEAN} :
        ~(x.json /\ x.csv) /\ (x.outfile => (x.json \/ x.csv))}

OtherCommands ==
    {CommandLine(k, FALSE, FALSE, FALSE, FALSE, FALSE) :
        k \in {"none", "count", "version"}}
    \cup {CommandLine("update", FALSE, FALSE, FALSE, FALSE, f) : f \in BOOLEAN}

InitOver(commands, configs, stores) ==
    /\ cmd \in commands
    /\ config \in configs
    /\ deployments \in stores
    /\ parentExists \in BOOLEAN
    /\ mkdirOk \in BOOLEAN
    /\ writeOk \in BOOLEAN
    \* the sink only matters with --outfile
    /\ (~cmd.outfile => parentExists /\ mkdirOk /\ writeOk)
    /\ pc = "main"
    /\ networks = <<>>
    /\ order = <<>>
    /\ found_deployments = <<>>
    /\ missing_deployments = <<>>
    /\ config_without_deployment = <<>>
    /\ deployment_without_config = <<>>
    /\ lastLookup = <<>>
    /\ stdout = <<>>
    /\ stderr = <<>>
    /\ outfile = <<>>
    /\ exitCode = None

(* ------------------------------- the actions --------------------------- *)
Text(t) == [command |-> "text", text |-> t]

\* process exit: code 0 on return from main, 1 through std::process::exit(1)
Exit(code, out, err) ==
    /\ pc' = "exit"
    /\ exitCode' = code
    /\ stdout' = stdout \o out
    /\ stderr' = stderr \o err

Fail(message) == Exit(1, <<>>, <<Text(message)>>)

NoCommand ==
    /\ pc = "main" /\ cmd.kind = "none"
    /\ Exit(0, <<Text("No command provided")>>, <<>>)
    /\ UNCHANGED <<env, parentExists, networks, order, listAcc, auditAcc,
                   lastLookup, outfile>>

Version ==
    /\ pc = "main" /\ cmd.kind = "version"
    /\ Exit(0, <<Text("version")>>, <<>>)
    /\ UNCHANGED <<env, parentExists, networks, order, listAcc, auditAcc,
                   lastLookup, outfile>>

\* what the update arm prints before it returns; latest is how the release
\* tag compares with VERSION, or "error" when get_latest_version failed
UpdateMessage(force, latest, permitted, install) ==
    IF latest = "error" THEN "Error checking for updates"
    ELSE IF ~force /\ latest = "same" THEN "You're already running the latest version"
    ELSE IF ~force /\ latest = "older" THEN "Warning: Latest version is older than current version"
    ELSE IF ~permitted THEN "Error: Insufficient permissions to perform update"
    ELSE IF install = "success" THEN "Successfully updated"
    ELSE IF install = "failure" THEN "Failed to update"
    ELSE "Error during update"

Update ==
    /\ pc = "main" /\ cmd.kind = "update"
    /\ \E latest \in {"error", "older", "same", "newer"}, permitted \in BOOLEAN,
          install \in {"success", "failure", "error"} :
          Exit(0, <<Text("Checking for updates..."),
                    Text(UpdateMessage(cmd.force, latest, permitted, install))>>,
               <<>>)
    /\ UNCHANGED <<env, parentExists, networks, order, listAcc, auditAcc,
                   lastLookup, outfile>>

Validate ==
    /\ pc = "main" /\ cmd.kind \in {"count", "list", "audit"}
    /\ IF validate_hardhat_project(config)
       THEN pc' = "run" /\ UNCHANGED <<exitCode, stdout, stderr>>
       ELSE Fail("No hardhat.config.ts found in the specified root directory")
    /\ UNCHANGED <<env, parentExists, networks, order, listAcc, auditAcc,
                   lastLookup, outfile>>

Count ==
    /\ pc = "run" /\ cmd.kind = "count"
    /\ LET r == count_deployments(deployments)
       IN  IF r.ok THEN Exit(0, <<[command |-> "count", value |-> r.value]>>, <<>>)
           ELSE Fail("Failed to read deployments directory")
    /\ UNCHANGED <<env, parentExists, networks, order, listAcc, auditAcc,
                   lastLookup, outfile>>

\* let networks = parse_hardhat_config(root)?; the HashMap will be iterated
\* in an order the program does not control
Parse(kind, loop) ==
    /\ pc = "run" /\ cmd.kind = kind
    /\ LET r == parse_hardhat_config(config)
       IN  IF r.ok
           THEN /\ networks' = r.networks
                /\ order' \in Perms(DOMAIN r.networks)
                /\ pc' = loop
                /\ UNCHANGED <<exitCode, stdout, stderr>>
           ELSE /\ Fail("hardhat.config.ts: read or chain id error")
                /\ UNCHANGED <<networks, order>>
    /\ UNCHANGED <<env, parentExists, listAcc, auditAcc, lastLookup, outfile>>

ListParse == Parse("list", "list_loop")

\* one iteration of the for loop of list_deployments
ListStep ==
    /\ pc = "list_loop" /\ order # <<>>
    /\ LET network_name == Head(order)
           entry == Lookup(deployments.dir, ChainDirName(networks[network_name]))
           r     == get_deployment_address(entry)
       IN  IF Excluded(network_name)
           THEN UNCHANGED <<listAcc, stderr, lastLookup>>
           ELSE /\ lastLookup' = <<[entry |-> entry, result |-> r]>>
                /\ IF r.ok /\ r.value # None
                   THEN /\ found_deployments' =
                             Append(found_deployments,
                                    [name |-> network_name, address |-> r.value])
                        /\ UNCHANGED <<missing_deployments, stderr>>
                   ELSE IF r.ok
                   THEN /\ missing_deployments' =
                             Append(missing_deployments, network_name)
                        /\ UNCHANGED <<found_deployments, stderr>>
                   ELSE /\ stderr' = Append(stderr,
                             [command |-> "warning", network |-> network_name])
                        /\ UNCHANGED listAcc
    /\ order' = Tail(order)
    /\ UNCHANGED <<env, parentExists, pc, networks, auditAcc, stdout, outfile,
                   exitCode>>

\* the rest of list_deployments: render, then print or write
ListRender ==
    /\ pc = "list_loop" /\ order = <<>>
    /\ LET doc == RenderList(found_deployments, missing_deployments,
                             cmd.aggregate, cmd.json, cmd.csv)
           w   == WriteOut(doc, cmd.outfile, cmd.json, parentExists, mkdirOk, writeOk)
       IN  /\ parentExists' = w.parentExists
           /\ outfile' = w.file
           /\ IF w.ok THEN Exit(0, w.stdout, <<>>)
              ELSE Fail("Failed to create directory or write to file")
    /\ UNCHANGED <<env, networks, order, listAcc, auditAcc, lastLookup>>

AuditParse == Parse("audit", "audit_loop")

\* one iteration of the first loop of audit_deployments
AuditStep ==
    /\ pc = "audit_loop" /\ order # <<>>
    /\ LET network_name == Head(order)
           chain_id == networks[network_name]
           name  == ChainDirName(chain_id)
           entry == Lookup(deployments.dir, name)
           r     == get_deployment_address(entry)
       IN  IF Excluded(network_name)
           THEN /\ order' = Tail(order)
                /\ UNCHANGED <<auditAcc, lastLookup, pc, exitCode, stdout, stderr>>
           ELSE IF ~PathExists(deployments.dir, name)
           THEN /\ config_without_deployment' =
                     Append(config_without_deployment,
                            [network |-> network_name, chain_id |-> chain_id])
                /\ order' = Tail(order)
                /\ UNCHANGED <<deployment_without_config, lastLookup, pc,
                               exitCode, stdout, stderr>>
           ELSE /\ lastLookup' = <<[entry |-> entry, result |-> r]>>
                /\ IF ~r.ok
                   THEN /\ Fail("Failed to read or parse deployed_addresses.json")
                        /\ UNCHANGED <<order, auditAcc>>
                   ELSE /\ config_without_deployment' =
                             IF r.value = None
                             THEN Append(config_without_deployment,
                                         [network |-> network_name,
                                          chain_id |-> chain_id])
                             ELSE config_without_deployment
                        /\ order' = Tail(order)
                        /\ UNCHANGED <<deployment_without_config, pc, exitCode,
                                       stdout, stderr>>
    /\ UNCHANGED <<env, parentExists, networks, listAcc, outfile>>

\* the second loop: fs::read_dir yields the entries in an order the program
\* does not control
AuditEnumerate ==
    /\ pc = "audit_loop" /\ order = <<>>
    /\ IF deployments.state = "absent"
       THEN pc' = "audit_render"
            /\ UNCHANGED <<deployment_without_config, exitCode, stdout, stderr>>
       ELSE IF deployments.state = "unreadable"
       THEN Fail("read_dir failed") /\ UNCHANGED deployment_without_config
       ELSE /\ \E entries \in Perms(DOMAIN deployments.dir) :
                  deployment_without_config' =
                      Orphans(entries, deployments.dir, networks)
            /\ pc' = "audit_render"
            /\ UNCHANGED <<exitCode, stdout, stderr>>
    /\ UNCHANGED <<env, parentExists, networks, order, listAcc,
                   config_without_deployment, lastLookup, outfile>>

AuditRender ==
    /\ pc = "audit_render"
    /\ LET doc == RenderAudit(config_without_deployment,
                              deployment_without_config, cmd.json, cmd.csv)
           w   == WriteOut(doc, cmd.outfile, TRUE, parentExists, mkdirOk, writeOk)
       IN  /\ parentExists' = w.parentExists
           /\ outfile' = w.file
           /\ IF w.ok THEN Exit(0, w.stdout, <<>>)
              ELSE Fail("Failed to create directory or write to file")
    /\ UNCHANGED <<env, networks, order, listAcc, auditAcc, lastLookup>>

(* ---------------------------- specifications --------------------------- *)
\* The whole program, every command.
NetNames == {hardhat, polygonAmoy, polygonMainnet, EthereumMainnet}

Records ==
    {Rec("absent", <<>>), Rec("badjson", <<>>),
     Rec("object", <<Str(Ox1)>>), Rec("object", <<NonStr, Str(Ox2)>>)}

EntryStates == {FileEntry} \cup {DirEntry(r) : r \in Records}

Init ==
    InitOver(ListCommands \cup AuditCommands \cup OtherCommands,
             ConfigsOver(NetNames, IdTokens \cup {TwoTo64}),
             DeploymentsOver({ChainDirName(i) : i \in ChainIds}, EntryStates))

Next ==
    \/ NoCommand
    \/ Version
    \/ Update
    \/ Validate
    \/ Count
    \/ ListParse
    \/ ListStep
    \/ ListRender
    \/ AuditParse
    \/ AuditStep
    \/ AuditEnumerate
    \/ AuditRender

Spec == Init /\ [][Next]_vars

\* The audit command alone, over directories that also hold entries whose
\* names are not the canonical chain-<id>.
ChainZeroOne == ChainDash \o <<48, 49>>
artifacts    == <<97, 114, 116, 105, 102, 97, 99, 116, 115>>

AuditStores ==
    {[state |-> st, dir |-> <<>>] : st \in {"absent", "unreadable"}}
    \cup {[state |-> "ok", dir |-> e @@ d] :
            d \in DirsOver({ChainDirName(i) : i \in ChainIds},
                           {FileEntry, DirEntry(Rec("absent", <<>>)),
                            DirEntry(Rec("object", <<Str(Ox1)>>))}),
            e \in DirsOver({ChainZeroOne, artifacts},
                           {DirEntry(Rec("absent", <<>>))})}

AuditInit ==
    InitOver({c \in AuditCommands : c.json /\ ~c.outfile},
             ConfigsOver({hardhat, polygonAmoy}, IdTokens), AuditStores)

AuditNext ==
    \/ Validate
    \/ AuditParse
    \/ AuditStep
    \/ AuditEnumerate
    \/ AuditRender

AuditSpec == AuditInit /\ [][AuditNext]_vars

\* Non-aggregated list and audit --json printing to standard output, over
\* configs that may declare "hardhat" and stores that may hold a record,
\* readable or not, for any declared chain id.
ReconcileStores ==
    DeploymentsOver({ChainDirName(i) : i \in ChainIds},
                    {DirEntry(Rec("badjson", <<>>)),
                     DirEntry(Rec("object", <<Str(Oxabc)>>))})

ReconcileInit ==
    InitOver({c \in ListCommands : ~c.outfile /\ ~c.aggregate}
                 \cup {c \in AuditCommands : c.json /\ ~c.outfile},
             ConfigsOver({hardhat, ethereum, polygonAmoy}, IdTokens),
             ReconcileStores)

ReconcileNext ==
    \/ Validate
    \/ ListParse
    \/ ListStep
    \/ ListRender
    \/ AuditParse
    \/ AuditStep
    \/ AuditEnumerate
    \/ AuditRender

ReconcileSpec == ReconcileInit /\ [][ReconcileNext]_vars

\* The list command over configs given by their text.
ExtractInit ==
    InitOver({CommandLine("list", FALSE, FALSE, FALSE, FALSE, FALSE)},
             ConfigsOfText({hardhat, ethereum}, IdTokens),
             DeploymentsOver({ChainDirName(i) : i \in ChainIds},
                             {DirEntry(Rec("object", <<Str(Ox1)>>))}))

ExtractNext ==
    \/ Validate
    \/ ListParse
    \/ ListStep
    \/ ListRender

ExtractSpec == ExtractInit /\ [][ExtractNext]_vars

\* list --aggregate over networks of one group, two of which ("polygon" and
\* "polygonMainnet") split to the same prefix and suffix.
AggregateInit ==
    InitOver({c \in ListCommands : c.aggregate /\ ~c.outfile},
             ConfigsOver({polygon, polygonMainnet, polygonAmoy}, IdTokens),
             DeploymentsOver({ChainDirName(i) : i \in ChainIds},
                             {DirEntry(Rec("object", <<Str(Ox1)>>)),
                              DirEntry(Rec("object", <<Str(Ox2)>>))}))

AggregateNext ==
    \/ Validate
    \/ ListParse
    \/ ListStep
    \/ ListRender

AggregateSpec == AggregateInit /\ [][AggregateNext]_vars

(* -------------------------------- claims ------------------------------- *)
\* the document a finished list or audit command emitted
Emitted == pc = "exit" /\ exitCode = 0 /\ cmd.kind \in {"list", "audit"}
Doc == IF cmd.outfile THEN outfile[1] ELSE stdout[1]

Reconciled == cmd.kind = "list" /\ pc = "list_loop" /\ order = <<>>

FoundNames == {found_deployments[i].name : i \in 1..Len(found_deployments)}
MissingNames == Range(missing_deployments)

\* the networks whose record cannot be read or parsed
StoreErrorNetworks ==
    {n \in DOMAIN networks \ {hardhat} :
        ~get_deployment_address(
            Lookup(deployments.dir, ChainDirName(networks[n]))).ok}

\* C1: after the reconciliation of list, found and missing together hold
\* exactly the config networks other than "hardhat", and share no name.
C1_FoundMissingPartition ==
    Reconciled =>
        /\ FoundNames \cup MissingNames = DOMAIN networks \ {hardhat}
        /\ FoundNames \cap MissingNames = {}

\* C2: a store read or parse error for one network never aborts list or
\* audit: the network is classified as missing (list) or as
\* config_without_deployment (audit) and the command goes on to succeed.
C2_StoreErrorRecovered ==
    /\ Reconciled => StoreErrorNetworks \subseteq MissingNames
    /\ (cmd.kind = "audit" /\ pc = "audit_render") =>
          StoreErrorNetworks \subseteq
              {config_without_deployment[i].network :
                  i \in 1..Len(config_without_deployment)}
    /\ (cmd.kind \in {"list", "audit"} /\ pc = "exit" /\ lastLookup # <<>>
        /\ ~lastLookup[1].result.ok /\ mkdirOk /\ writeOk) => exitCode = 0

\* the split as the specification words it: at the first uppercase letter at
\* an index greater than 0; without one, the whole name and "Mainnet"
SpecSplit(name) ==
    LET ups == {i \in 2..Len(name) : IsUpper(name[i])}
        k   == CHOOSE i \in ups : \A j \in ups : i <= j
    IN  IF ups = {} THEN [prefix |-> name, suffix |-> Mainnet]
        ELSE [prefix |-> SubSeq(name, 1, k - 1),
              suffix |-> SubSeq(name, k, Len(name))]

HasRow(rows, name) ==
    \E i \in 1..Len(rows) : /\ rows[i].prefix = SpecSplit(name).prefix
                            /\ rows[i].suffix = SpecSplit(name).suffix

\* C3: every aggregated rendering shows each network under the prefix and
\* suffix obtained by splitting its name at its first internal uppercase
\* letter ("EthereumMainnet" under "Ethereum" / "Mainnet").
C3_SplitAtInternalUppercase ==
    (Emitted /\ cmd.kind = "list" /\ cmd.aggregate) =>
        /\ \A n \in FoundNames : HasRow(Doc.found, n)
        /\ \A n \in MissingNames : HasRow(Doc.missing, n)

MainnetFirstOrder(rows) ==
    \A i, j \in 1..Len(rows) :
        (i < j /\ rows[i].prefix = rows[j].prefix) =>
            /\ rows[j].suffix = Mainnet => rows[i].suffix = Mainnet
            /\ (rows[i].suffix # Mainnet /\ rows[j].suffix # Mainnet) =>
                  StrCmp(rows[i].suffix, rows[j].suffix) <= 0

\* C4: in every aggregated rendering of list, found and missing, the
\* "Mainnet" entry of a group precedes the group's other entries and the
\* others are in lexicographic order of suffix.
C4_MainnetFirst ==
    (Emitted /\ cmd.kind = "list" /\ cmd.aggregate) =>
        MainnetFirstOrder(Doc.found) /\ MainnetFirstOrder(Doc.missing)

NameOrder(rows) ==
    \A i, j \in 1..Len(rows) : i < j => StrCmp(rows[i].name, rows[j].name) <= 0

\* C5: in every non-aggregated rendering of list, the found entries and the
\* missing entries are each in lexicographic order of network name.
C5_FlatSortedByName ==
    (Emitted /\ cmd.kind = "list" /\ ~cmd.aggregate) =>
        NameOrder(Doc.found) /\ NameOrder(Doc.missing)

\* C6: audit emits deployment_without_config in ascending order of chain id.
C6_OrphansAscending ==
    (Emitted /\ cmd.kind = "audit") =>
        \A i, j \in 1..Len(Doc.deployment_without_config) :
            i < j => Doc.deployment_without_config[i]
                       <= Doc.deployment_without_config[j]

StringValues(rec) ==
    {rec.values[i].s : i \in {k \in 1..Len(rec.values) : rec.values[k].isStr}}

\* C7: get_deployment_address returns one of the record's address-valued
\* entries whenever the record is a parseable object that has one, and none
\* only when the record is absent or has no address-valued entry.
C7_ReaderFindsAnAddress ==
    lastLookup # <<>> =>
        LET e == lastLookup[1].entry
            r == lastLookup[1].result
            has == e.isDir /\ e.rec.file = "object" /\ StringValues(e.rec) # {}
        IN  /\ has => (r.ok /\ r.value \in StringValues(e.rec))
            /\ (r.ok /\ r.value = None) => ~has

Said(stream, t) == \E i \in 1..Len(stream) : stream[i] = Text(t)

FatalError ==
    \/ Said(stderr, "No hardhat.config.ts found in the specified root directory")
    \/ Said(stderr, "hardhat.config.ts: read or chain id error")
    \/ Said(stderr, "Failed to create directory or write to file")
    \/ Said(stdout, "Error checking for updates")

AnyError ==
    FatalError \/ \E i \in 1..Len(stderr) : stderr[i].command = "text"

\* C8: a command that hits a config, sink or update-check error exits with a
\* non-zero code, and a command that completes without error exits with 0.
C8_ErrorsExitNonZero ==
    pc = "exit" => /\ FatalError => exitCode # 0
                   /\ ~AnyError => exitCode = 0

SinkStage ==
    /\ pc = "exit" /\ cmd.kind \in {"list", "audit"} /\ cmd.outfile
    /\ \/ exitCode = 0
       \/ Said(stderr, "Failed to create directory or write to file")

\* C9: with --outfile, on a file system that accepts the writes, list and
\* audit create the missing parent directory, write the rendered document
\* to the path and print nothing of it.
C9_SinkWritten ==
    (SinkStage /\ mkdirOk /\ writeOk) => /\ parentExists
                                          /\ outfile # <<>>
                                          /\ stdout = <<>>

\* text is a decimal numeral of id: an optional '+', any leading zeros, then
\* the digits of id
IsNumeralOf(text, id) ==
    \E k \in 0..Len(text) :
        /\ \A i \in 1..k : text[i] = 48 \/ (i = 1 /\ text[i] = 43)
        /\ SubSeq(text, k + 1, Len(text)) = FormatU64(id)

\* the chain ids that have a directory chain-<id> in the store
StoreChainIds ==
    {id \in 0..MaxChain :
        \E name \in DOMAIN deployments.dir :
            /\ deployments.dir[name].isDir
            /\ Len(name) >= Len(ChainDash)
            /\ SubSeq(name, 1, Len(ChainDash)) = ChainDash
            /\ IsNumeralOf(SubSeq(name, Len(ChainDash) + 1, Len(name)), id)}

ConfigChainIds == {networks[n] : n \in DOMAIN networks}

\* C10: once audit has enumerated the store, deployment_without_config holds
\* exactly the chain ids that have a directory chain-<id> and are not a
\* value of the config mapping ("hardhat"'s chain id counts as a value).
C10_OrphansExact ==
    (cmd.kind = "audit" /\ (pc = "audit_render" \/ (pc = "exit" /\ exitCode = 0)))
        => Range(deployment_without_config) = StoreChainIds \ ConfigChainIds

C10_Witness ==
    /\ Emitted /\ cmd.kind = "audit"
    /\ deployment_without_config # <<>>
    /\ hardhat \in DOMAIN networks
    /\ PathExists(deployments.dir, ChainDirName(networks[hardhat]))
    /\ deployments.dir[ChainDirName(networks[hardhat])].isDir
    /\ \E name \in DOMAIN deployments.dir : ~deployments.dir[name].isDir

AuditNames(rows) == {rows[i].network : i \in 1..Len(rows)}
FlatNames(rows) == {rows[i].name : i \in 1..Len(rows)}

\* C11: "hardhat" is never in found or missing of list nor in
\* config_without_deployment of audit, and no emitted document names it,
\* whatever the config declares and whatever the store holds.
C11_HardhatExcluded ==
    /\ hardhat \notin FoundNames \cup MissingNames
    /\ hardhat \notin AuditNames(config_without_deployment)
    /\ (Emitted /\ cmd.kind = "list" /\ ~cmd.aggregate) =>
          hardhat \notin FlatNames(Doc.found) \cup FlatNames(Doc.missing)
    /\ (Emitted /\ cmd.kind = "audit") =>
          hardhat \notin AuditNames(Doc.config_without_deployment)

C11_Witness ==
    /\ Emitted /\ cmd.kind = "list" /\ ~cmd.aggregate
    /\ hardhat \in DOMAIN networks
    /\ get_deployment_address(
           Lookup(deployments.dir, ChainDirName(networks[hardhat]))).value # None
    /\ FoundNames # {}

\* what list --csv writes when the config mapping is iterated in order o
CsvOfOrder(o) ==
    LET r == Reconcile(o, networks, deployments.dir)
    IN  RenderListCsv(r.found, r.missing, cmd.aggregate).text

\* C12: the CSV text list emits is the same for every iteration order of the
\* config mapping: a second run over the same config and store, whatever
\* order its mapping iterates in, writes the same bytes.
C12_CsvSameForEveryOrder ==
    (Emitted /\ cmd.kind = "list" /\ cmd.csv) =>
        \A o \in Perms(DOMAIN networks) : CsvOfOrder(o) = Doc.text

BlockNames(blocks) == {blocks[i].name : i \in 1..Len(blocks)}

\* the mapping the blocks declare: each block's name to its own chainId
DeclaredNetworks(blocks) ==
    [n \in BlockNames(blocks) |->
        LET i == CHOOSE i \in 1..Len(blocks) : blocks[i].name = n
        IN  ParseU64(blocks[i].tok).value]

\* C13: from a config text of N network blocks with distinct names, the
\* extractor returns exactly N entries, each block's identifier with the
\* chainId written in that block.
C13_ExtractorPairsBlocks ==
    (pc = "list_loop" /\ "blocks" \in DOMAIN config
     /\ Cardinality(BlockNames(config.blocks)) = Len(config.blocks)) =>
        networks = DeclaredNetworks(config.blocks)

IsJsonWhitespace(c) == c \in {32, 9, 10, 13}

\* the quote that closes the string opened at index q: the first later quote
\* with an even number of backslashes right before it
ClosingQuote(t, q) ==
    LET closes(j) ==
            /\ t[j] = 34
            /\ LET k == CHOOSE m \in q..(j - 1) :
                            t[m] # 92 /\ \A x \in (m + 1)..(j - 1) : t[x] = 92
               IN  (j - 1 - k) % 2 = 0
        js == {j \in (q + 1)..Len(t) : closes(j)}
    IN  IF js = {} THEN Len(t) ELSE CHOOSE j \in js : \A x \in js : j <= x

\* t without the JSON whitespace (space, tab, newline, carriage return) that
\* stands outside its strings
RECURSIVE StripJsonWhitespace(_)
StripJsonWhitespace(t) ==
    LET qs == {i \in 1..Len(t) : t[i] = 34}
        q  == CHOOSE i \in qs : \A x \in qs : i <= x
        c  == ClosingQuote(t, q)
    IN  IF qs = {} THEN SelectSeq(t, LAMBDA x : ~IsJsonWhitespace(x))
        ELSE SelectSeq(SubSeq(t, 1, q - 1), LAMBDA x : ~IsJsonWhitespace(x))
             \o SubSeq(t, q, c)
             \o StripJsonWhitespace(SubSeq(t, c + 1, Len(t)))

\* the compact JSON text of the flat document: "deployments" maps each found
\* name to its address, "missing" lists the missing names
CompactFlat(found, missing) ==
    LET names == SortedKeys({found[i].name : i \in 1..Len(found)})
        addr(n) == found[CHOOSE i \in 1..Len(found) : found[i].name = n].address
        d == deployments_key
        m == missing_key
        fpart == JsonString(d) \o <<58, 123>>
                 \o Join([k \in 1..Len(names) |->
                             JsonString(names[k]) \o <<58>>
                                 \o JsonString(addr(names[k]))], <<44>>)
                 \o <<125>>
        mpart == JsonString(m) \o <<58, 91>>
                 \o Join([k \in 1..Len(missing) |-> JsonString(missing[k])], <<44>>)
                 \o <<93>>
    IN  <<123>>
        \o Join((IF found # <<>> THEN <<fpart>> ELSE <<>>)
                \o (IF missing # <<>> THEN <<mpart>> ELSE <<>>), <<44>>)
        \o <<125>>

FlatJsonEmitted == Emitted /\ cmd.kind = "list" /\ cmd.json /\ ~cmd.aggregate

OnlyEthereumFound ==
    /\ found_deployments = <<[name |-> ethereum, address |-> Oxabc]>>
    /\ missing_deployments = <<>>

ExactDocument == <<123, 34, 100, 101, 112, 108, 111, 121, 109, 101, 110, 116, 115, 34, 58, 123, 34, 101, 116, 104, 101, 114, 101, 117, 109, 34, 58, 34, 48, 120, 97, 98, 99, 34, 125, 125>>

\* C14 as stated: list --json without --aggregate emits the flat document,
\* and for found = {"ethereum": "0xabc"} and nothing missing its text is
\* exactly {"deployments":{"ethereum":"0xabc"}}.
C14_FlatJsonExactText ==
    FlatJsonEmitted =>
        /\ FlatNames(Doc.found) = FoundNames
        /\ OnlyEthereumFound => Doc.text = ExactDocument

\* C14, amended: list --json without --aggregate emits a pretty-printed JSON
\* text that, without its insignificant whitespace, is the flat document
\* mapping exactly each found name to its address and listing exactly the
\* missing names, each key present only when it has entries; for found =
\* {"ethereum": "0xabc"} and nothing missing that is
\* {"deployments":{"ethereum":"0xabc"}}, with no "missing" key.
C14_FlatJsonUpToWhitespace ==
    FlatJsonEmitted =>
        /\ StripJsonWhitespace(Doc.text) =
              CompactFlat(found_deployments, missing_deployments)
        /\ Doc.text # StripJsonWhitespace(Doc.text)
              \/ (found_deployments = <<>> /\ missing_deployments = <<>>)
        /\ OnlyEthereumFound =>
              StripJsonWhitespace(Doc.text) = ExactDocument

C14_Witness ==
    /\ FlatJsonEmitted /\ OnlyEthereumFound
    /\ hardhat \in DOMAIN networks

\* C15: every aggregated rendering of list holds as many (prefix, suffix,
\* address) entries for found as there are found networks, also when two
\* names split to the same prefix and suffix.
C15_AggregationKeepsEveryEntry ==
    (Emitted /\ cmd.kind = "list" /\ cmd.aggregate) =>
        Len(Doc.found) = Len(found_deployments)
====
